---- MODULE Spec2Model ----
(***************************************************************************)
(* Model of profiles_backup/cli.py: the interactive backup / restore tool   *)
(* for the mail client's default profile.                                   *)
(*                                                                          *)
(* The filesystem is a function from absolute paths (tuples of path         *)
(* components) to nodes: DIR for a directory, any other string for the      *)
(* content of a regular file.  One program invocation walks the statements  *)
(* of user_input(), backup(), restore_from_documents() and restore_data()   *)
(* in source order; between invocations the environment may edit the        *)
(* profile and the calendar date may advance.                               *)
(***************************************************************************)
EXTENDS Integers, Sequences, FiniteSets, TLC

VARIABLES os, fs, today, pc, steps, exitKind, out, entries, backup_list,
          choice, restoreSrc, restoreDst, copyAttempts, copyError,
          fsAtStart, backedUpOn, runs

vars == <<os, fs, today, pc, steps, exitKind, out, entries, backup_list,
          choice, restoreSrc, restoreDst, copyAttempts, copyError,
          fsAtStart, backedUpOn, runs>>

(***************************************************************************)
(* Bounds of the model.                                                     *)
(***************************************************************************)
MaxRuns == 2

(***************************************************************************)
(* Strings.                                                                 *)
(***************************************************************************)
DIR == "<dir>"

NONE == <<>>

user == "u"

Digit(n) == SubSeq("0123456789", n + 1, n + 1)

\* str(n) for the small naturals the menu numbering produces
Str(n) == IF n < 10 THEN Digit(n) ELSE Digit(n \div 10) \o Digit(n % 10)

startswith(s, prefix) ==
    /\ Len(prefix) <= Len(s)
    /\ SubSeq(s, 1, Len(prefix)) = prefix

endswith(s, suffix) ==
    /\ Len(suffix) <= Len(s)
    /\ SubSeq(s, Len(s) - Len(suffix) + 1, Len(s)) = suffix

LowerChar(c) ==
    CASE c = "P" -> "p"
      [] c = "I" -> "i"
      [] c = "N" -> "n"
      [] OTHER -> c

RECURSIVE Lower(_)
Lower(s) == IF Len(s) = 0 THEN ""
            ELSE LowerChar(SubSeq(s, 1, 1)) \o Lower(SubSeq(s, 2, Len(s)))

(***************************************************************************)
(* Paths and the filesystem.                                                *)
(***************************************************************************)
IsPrefix(p, q) == Len(p) <= Len(q) /\ SubSeq(q, 1, Len(p)) = p

Rel(base, q) == SubSeq(q, Len(base) + 1, Len(q))

Exists(f, p) == p \in DOMAIN f

IsDir(f, p) == p \in DOMAIN f /\ f[p] = DIR

IsFile(f, p) == p \in DOMAIN f /\ f[p] # DIR

\* the relative paths of everything below directory base
Below(f, base) == { Rel(base, q) : q \in { r \in DOMAIN f : IsPrefix(base, r) /\ Len(r) > Len(base) } }

\* the relative paths of the regular files below directory base
FilesBelow(f, base) == { r \in Below(f, base) : f[base \o r] # DIR }

\* os.listdir as a set of names
Names(f, base) == { r[1] : r \in { x \in Below(f, base) : Len(x) = 1 } }

\* every proper ancestor of path p, p itself excluded
Ancestors(p) == { SubSeq(p, 1, i) : i \in 1..(Len(p) - 1) }

\* os.makedirs(p, exist_ok=True): p and its missing ancestors become directories
makedirs(f, p) ==
    LET new == (Ancestors(p) \cup {p}) \ DOMAIN f
    IN  [q \in new |-> DIR] @@ f

\* a tree rooted at base holding the given files (rel path -> content)
Tree(base, files) ==
    LET filePaths == { base \o r : r \in DOMAIN files }
        dirPaths == (UNION { Ancestors(p) : p \in filePaths }) \cup Ancestors(base) \cup {base}
    IN  [p \in filePaths \cup dirPaths |->
            IF p \in filePaths THEN files[Rel(base, p)] ELSE DIR]

\* removal of path p and everything below it
Remove(f, p) == [q \in { r \in DOMAIN f : ~IsPrefix(p, r) } |-> f[q]]

(***************************************************************************)
(* Platform Resolver (module common).                                       *)
(***************************************************************************)
OSKinds == {"Darwin", "Linux", "Windows"}

thunderbird_directory(o) ==
    CASE o = "Darwin" -> <<"Users", user, "Library", "Thunderbird", "Profiles">>
      [] o = "Linux" -> <<"home", user, ".thunderbird">>
      [] o = "Windows" -> <<"C:", "Users", user, "AppData", "Roaming", "Thunderbird", "Profiles">>

\* the subdirectory of the profile root whose name carries the default-release
\* suffix, NONE when there is none
default_release_directory(f, o) ==
    LET root == thunderbird_directory(o)
        found == { n \in Names(f, root) :
                     IsDir(f, root \o <<n>>) /\ endswith(n, "default-release") }
    IN  IF found = {} THEN NONE ELSE root \o <<CHOOSE n \in found : TRUE>>

documents_directory(o) ==
    CASE o = "Darwin" -> <<"Users", user, "Documents">>
      [] o = "Linux" -> <<"home", user, "Documents">>
      [] o = "Windows" -> <<"C:", "Users", user, "Documents">>

\* (operating_system, thunderbird_dir, default_release_dir)
check_default_profile(f, o) ==
    <<o, thunderbird_directory(o), default_release_directory(f, o)>>

\* resolution fails when no default profile directory is found
ResolveFails(f, o) == default_release_directory(f, o) = NONE

(***************************************************************************)
(* Dates and snapshot names.                                                *)
(***************************************************************************)
\* day ordinals count from 01-12-2020 = 1
DateOf(n) == IF n <= 31 THEN [d |-> n, m |-> 12, y |-> 2020]
             ELSE [d |-> n - 31, m |-> 1, y |-> 2021]

\* strftime('%d-%m-%Y')
strftime(dt) ==
    Digit(dt.d \div 10) \o Digit(dt.d % 10) \o "-"
    \o Digit(dt.m \div 10) \o Digit(dt.m % 10) \o "-"
    \o Digit(dt.y \div 1000) \o Digit((dt.y \div 100) % 10)
    \o Digit((dt.y \div 10) % 10) \o Digit(dt.y % 10)

backup_folder == <<"Thunderbird-Backup">>

\* 'th-' + current_date.strftime('%d-%m-%Y')
SnapshotName(day) == "th-" \o strftime(DateOf(day))

\* dst of backup(): documents + backup_folder + snapshot name
BackupDst(o, day) == documents_directory(o) \o backup_folder \o <<SnapshotName(day)>>

\* documents of restore_from_documents() and restore_data()
RestoreDocuments == <<"Users", user, "Documents", "Thunderbird-Backup">>

(***************************************************************************)
(* Retention Manager (module clean_data).                                   *)
(***************************************************************************)
max_age_days == 30

\* the snapshot directories of the backup root older than max_age_days
StaleSnapshots(f, o, day) ==
    LET root == documents_directory(o) \o backup_folder
    IN  { n \in Names(f, root) :
            /\ IsDir(f, root \o <<n>>)
            /\ \E d \in 1..day : n = SnapshotName(d) /\ day - d > max_age_days }

RECURSIVE RemoveAll(_, _)
RemoveAll(f, ps) ==
    IF ps = {} THEN f
    ELSE LET p == CHOOSE x \in ps : TRUE
         IN  RemoveAll(Remove(f, p), ps \ {p})

delete_old_profiles(f, o, day) ==
    LET root == documents_directory(o) \o backup_folder
    IN  RemoveAll(f, { root \o <<n>> : n \in StaleSnapshots(f, o, day) })

(***************************************************************************)
(* The copy primitives.                                                     *)
(***************************************************************************)
\* os.path.normcase as fnmatch applies it
normcase(o, s) == IF o = "Windows" THEN Lower(s) ELSE s

\* fnmatch of a name against a pattern of the form '*<suffix>'
fnmatch(o, name, pat) ==
    endswith(normcase(o, name), normcase(o, SubSeq(pat, 2, Len(pat))))

IgnoreIniOnly(o, name) == fnmatch(o, name, "*.ini")

\* shutil.ignore_patterns('*.ini', '*.default')
Ignored(o, name) == \E pat \in {"*.ini", "*.default"} : fnmatch(o, name, pat)

\* the relative paths below src that copytree visits: no component ignored
Copyable(f, src, o) ==
    { r \in Below(f, src) : \A i \in 1..Len(r) : ~Ignored(o, r[i]) }

\* dst is created as needed and the entries K of src are written below it,
\* replacing same-named files; everything else is left as it is
CopyInto(f, src, dst, K) ==
    [q \in { dst \o r : r \in K } |-> f[src \o Rel(dst, q)]] @@ makedirs(f, dst)

copytreeReplace(f, src, dst, o) ==
    CopyInto(Remove(f, dst), src, dst, Copyable(f, src, o))

\* shutil.copytree(src, dst, dirs_exist_ok=True, symlinks=False, ignore=...)
copytree(f, src, dst, o) == CopyInto(f, src, dst, Copyable(f, src, o))

copy_treeReplace(f, src, dst) ==
    CopyInto(Remove(f, dst), src, dst, Below(f, src))

\* distutils.dir_util.copy_tree(src, dst)
copy_tree(f, src, dst) == CopyInto(f, src, dst, Below(f, src))

\* what a failed copy may have written below dst: all of the entries rels of
\* src but one regular file
PartialSets(f, src, rels) ==
    { rels \ {x} : x \in { r \in rels : f[src \o r] # DIR } }

(***************************************************************************)
(* The initial filesystem and the environment between two invocations.      *)
(***************************************************************************)
ProfileName == "ab12.default-release"

ProfileFiles ==
    (<<"prefs.js">> :> "v1") @@ (<<"profiles.ini">> :> "i1")
    @@ (<<"P.INI">> :> "i2") @@ (<<"default", "store">> :> "d1")
    @@ (<<"old.default", "mail">> :> "m1")

\* files lying directly in the profile root, beside the default profile
RootFiles == (<<"prefs.js">> :> "r0") @@ (<<"keep.txt">> :> "k0")

\* what a backup root may hold before the first invocation
RootEntries ==
    [stale |-> (<<"th-01-12-2020", "old.js">> :> "s0") @@ (<<"th-01-12-2020", "prefs.js">> :> "s1"),
     recent |-> (<<"th-31-12-2020", "prefs.js">> :> "s2"),
     tmp |-> (<<"tmp.txt">> :> "t0"),
     notes |-> (<<"notes.txt">> :> "n0")]

RootVariants == { {}, {"stale", "tmp"}, {"recent", "notes"} }

RECURSIVE Union(_, _)
Union(v, acc) ==
    IF v = {} THEN acc
    ELSE LET e == CHOOSE x \in v : TRUE
         IN  Union(v \ {e}, RootEntries[e] @@ acc)

\* the filesystem with a backup root holding variant v at path root
WithRoot(f, root, v) ==
    IF v = {} THEN f ELSE Tree(root, Union(v, <<>>)) @@ f

InitFs(o, v, hv) ==
    LET proot == thunderbird_directory(o)
        base == Tree(proot, RootFiles) @@ makedirs(<<>>, documents_directory(o))
        prof == Tree(proot \o <<ProfileName>>, ProfileFiles) @@ base
    IN  WithRoot(WithRoot(prof, documents_directory(o) \o backup_folder, v),
                 RestoreDocuments, hv)

Edits == {"none", "write", "remove", "lose_profile"}

\* an edit of the default profile by its owner while the program is not running
ApplyEdit(f, o, e) ==
    LET prof == default_release_directory(f, o)
        target == prof \o <<"prefs.js">>
    IN  IF e = "none" \/ prof = NONE THEN f
        ELSE CASE e = "write" -> (target :> "v2") @@ f
               [] e = "remove" -> Remove(f, target)
               [] e = "lose_profile" -> Remove(f, prof)

Init ==
    /\ os \in OSKinds
    /\ \E v \in RootVariants :
          fs = InitFs(os, v, IF os = "Darwin" THEN {} ELSE {"recent", "tmp"})
    /\ today = 32
    /\ pc = "idle"
    /\ steps = <<>>
    /\ exitKind = "none"
    /\ out = {}
    /\ entries = <<>>
    /\ backup_list = <<>>
    /\ choice = ""
    /\ restoreSrc = NONE
    /\ restoreDst = NONE
    /\ copyAttempts = 0
    /\ copyError = ""
    /\ fsAtStart = fs
    /\ backedUpOn = {}
    /\ runs = 0

(***************************************************************************)
(* main() and user_input().                                                 *)
(***************************************************************************)
ExitStatus(kind) == IF kind \in {"exit1", "fault"} THEN 1 ELSE 0

\* the process ends: by returning from main, by sys.exit, or by an
\* exception nobody handles
Finish(kind) ==
    /\ pc' = "exited"
    /\ exitKind' = kind

\* a new process is started; since the last one ended the profile may have
\* been edited and the date may have advanced
Start ==
    /\ pc \in {"idle", "exited"}
    /\ runs < MaxRuns
    /\ \E e \in Edits, adv \in {0, 1} :
          /\ pc = "idle" => e = "none" /\ adv = 0
          /\ e = "none" \/ adv = 0
          /\ fs' = ApplyEdit(fs, os, e)
          /\ today' = today + adv
    /\ fsAtStart' = fs'
    /\ runs' = runs + 1
    /\ pc' = "user_input"
    /\ steps' = <<>>
    /\ exitKind' = "none"
    /\ out' = {}
    /\ entries' = <<>>
    /\ backup_list' = <<>>
    /\ choice' = ""
    /\ restoreSrc' = NONE
    /\ restoreDst' = NONE
    /\ copyAttempts' = 0
    /\ copyError' = ""
    /\ backedUpOn' = IF "Successfully created the backup!" \in out
                     THEN backedUpOn \cup {today} ELSE backedUpOn
    /\ UNCHANGED os

MenuShowPath ==
    /\ pc = "user_input"
    /\ steps' = steps \o <<"check_process", "check_default_profile">>
    /\ IF ResolveFails(fs, os)
       THEN Finish("exit1") /\ out' = out \cup {"profile not found"}
       ELSE Finish("return") /\ out' = out \cup {"default profile path"}
    /\ UNCHANGED <<os, fs, today, entries, backup_list, choice, restoreSrc,
                   restoreDst, copyAttempts, copyError, fsAtStart, backedUpOn,
                   runs>>

MenuBackup ==
    /\ pc = "user_input"
    /\ pc' = "backup"
    /\ UNCHANGED <<os, fs, today, steps, exitKind, out, entries, backup_list,
                   choice, restoreSrc, restoreDst, copyAttempts, copyError,
                   fsAtStart, backedUpOn, runs>>

MenuRestore ==
    /\ pc = "user_input"
    /\ pc' = "restore_from_documents"
    /\ UNCHANGED <<os, fs, today, steps, exitKind, out, entries, backup_list,
                   choice, restoreSrc, restoreDst, copyAttempts, copyError,
                   fsAtStart, backedUpOn, runs>>

MenuInfo ==
    /\ pc = "user_input"
    /\ Finish("return")
    /\ out' = out \cup {"version"}
    /\ UNCHANGED <<os, fs, today, steps, entries, backup_list, choice,
                   restoreSrc, restoreDst, copyAttempts, copyError, fsAtStart,
                   backedUpOn, runs>>

MenuQuit ==
    /\ pc = "user_input"
    /\ Finish("exit0")
    /\ out' = out \cup {"Goodbye!"}
    /\ UNCHANGED <<os, fs, today, steps, entries, backup_list, choice,
                   restoreSrc, restoreDst, copyAttempts, copyError, fsAtStart,
                   backedUpOn, runs>>

MenuUnknown ==
    /\ pc = "user_input"
    /\ out' = out \cup {"Unknown input! Try again."}
    /\ UNCHANGED <<os, fs, today, pc, steps, exitKind, entries, backup_list,
                   choice, restoreSrc, restoreDst, copyAttempts, copyError,
                   fsAtStart, backedUpOn, runs>>

(***************************************************************************)
(* backup().                                                                *)
(***************************************************************************)
BackupGateIgnored(is_running) == "backup_prune"

\* where backup() goes after the liveness check
BackupGate(is_running) == IF is_running THEN "exited" ELSE "backup_prune"

BackupCheckProcess ==
    /\ pc = "backup"
    /\ \E is_running \in BOOLEAN :
          /\ pc' = BackupGate(is_running)
          /\ exitKind' = IF is_running THEN "exit0" ELSE exitKind
          /\ out' = IF is_running THEN out \cup {"Thunderbird is running!"} ELSE out
    /\ steps' = Append(steps, "check_process")
    /\ UNCHANGED <<os, fs, today, entries, backup_list, choice, restoreSrc,
                   restoreDst, copyAttempts, copyError, fsAtStart, backedUpOn,
                   runs>>

BackupDeleteOld ==
    /\ pc = "backup_prune"
    /\ fs' = delete_old_profiles(fs, os, today)
    /\ steps' = Append(steps, "delete_old_profiles")
    /\ pc' = "backup_resolve"
    /\ UNCHANGED <<os, today, exitKind, out, entries, backup_list, choice,
                   restoreSrc, restoreDst, copyAttempts, copyError, fsAtStart,
                   backedUpOn, runs>>

BackupResolve ==
    /\ pc = "backup_resolve"
    /\ steps' = Append(steps, "check_default_profile")
    /\ IF ResolveFails(fs, os)
       THEN Finish("exit1") /\ out' = out \cup {"profile not found"}
       ELSE pc' = "backup_copy" /\ UNCHANGED <<exitKind, out>>
    /\ UNCHANGED <<os, fs, today, entries, backup_list, choice, restoreSrc,
                   restoreDst, copyAttempts, copyError, fsAtStart, backedUpOn,
                   runs>>

BackupOnErrorSwallow(err) == "return"

\* the except OSError branch of backup()
BackupOnError(err) == "exit1"

BackupCopyOk ==
    /\ pc = "backup_copy"
    /\ fs' = copytree(fs, check_default_profile(fs, os)[3], BackupDst(os, today), os)
    /\ steps' = Append(steps, "copytree")
    /\ copyAttempts' = copyAttempts + 1
    /\ out' = out \cup {"Successfully created the backup!"}
    /\ Finish("return")
    /\ UNCHANGED <<os, today, entries, backup_list, choice, restoreSrc,
                   restoreDst, copyError, fsAtStart, backedUpOn, runs>>

BackupCopyFail ==
    /\ pc = "backup_copy"
    /\ LET src == check_default_profile(fs, os)[3]
           dst == BackupDst(os, today)
       IN  \/ fs' = fs
           \/ \E K \in PartialSets(fs, src, Copyable(fs, src, os)) :
                 fs' = CopyInto(fs, src, dst, K)
    /\ steps' = Append(steps, "copytree")
    /\ copyAttempts' = copyAttempts + 1
    /\ copyError' = "OSError"
    /\ out' = out \cup {"Creation of the directory failed", "Error message"}
    /\ Finish(BackupOnError("OSError"))
    /\ UNCHANGED <<os, today, entries, backup_list, choice, restoreSrc,
                   restoreDst, fsAtStart, backedUpOn, runs>>

(***************************************************************************)
(* restore_from_documents() and restore_data().                             *)
(***************************************************************************)
RestoreCheckProcess ==
    /\ pc = "restore_from_documents"
    /\ steps' = Append(steps, "check_process")
    /\ \E is_running \in BOOLEAN :
          IF is_running
          THEN Finish("return") /\ out' = out \cup {"Thunderbird is running!"}
          ELSE pc' = "restore_list" /\ UNCHANGED <<exitKind, out>>
    /\ UNCHANGED <<os, fs, today, entries, backup_list, choice, restoreSrc,
                   restoreDst, copyAttempts, copyError, fsAtStart, backedUpOn,
                   runs>>

\* the orders in which os.listdir may return a set of names
Listings(S) ==
    { s \in [1..Cardinality(S) -> S] : \A i, j \in DOMAIN s : s[i] = s[j] => i = j }

\* the filter of the enumeration loop
Selectable(entry) == startswith(entry, "t")

\* the numbered menu lines of the selectable entries, counting from count
RECURSIVE NumberedLines(_, _)
NumberedLines(es, count) ==
    IF es = <<>> THEN <<>>
    ELSE IF Selectable(Head(es))
         THEN <<"-" \o Str(count) \o "- " \o Head(es)>> \o NumberedLines(Tail(es), count + 1)
         ELSE NumberedLines(Tail(es), count)

BuildList(es) == NumberedLines(es, 1) \o <<"-q- Quit">>

RestoreList ==
    /\ pc = "restore_list"
    /\ steps' = Append(steps, "listdir")
    /\ IF ~IsDir(fs, RestoreDocuments)
       THEN /\ Finish("exit1")
            /\ out' = out \cup {"Error message", "Could not find a directory named 'Thunderbird-Backup'!"}
            /\ UNCHANGED <<entries, backup_list>>
       ELSE /\ \E listing \in Listings(Names(fs, RestoreDocuments)) :
                  /\ entries' = listing
                  /\ backup_list' = BuildList(listing)
            /\ pc' = "restore_choice"
            /\ out' = out \cup {"Select the backup you want to restore:"}
            /\ UNCHANGED exitKind
    /\ UNCHANGED <<os, fs, today, choice, restoreSrc, restoreDst, copyAttempts,
                   copyError, fsAtStart, backedUpOn, runs>>

Choices == {"1", "2", "3", "4", "5", "6", "q", "x"}

\* the list index the if/elif chain uses for a choice, 0 for none
ChoiceIndex(c) ==
    CASE c = "1" -> 1
      [] c = "2" -> 2
      [] c = "3" -> 3
      [] c = "4" -> 4
      [] c = "5" -> 5
      [] OTHER -> 0

RestoreChoose ==
    /\ pc = "restore_choice"
    /\ \E c \in Choices :
          /\ ChoiceIndex(c) # 0
          /\ choice' = c
          /\ IF ChoiceIndex(c) <= Len(backup_list)
             THEN pc' = "restore_data" /\ UNCHANGED <<exitKind, out>>
             ELSE Finish("fault") /\ out' = out \cup {"Traceback: IndexError"}
    /\ UNCHANGED <<os, fs, today, steps, entries, backup_list, restoreSrc,
                   restoreDst, copyAttempts, copyError, fsAtStart, backedUpOn,
                   runs>>

RestoreQuit ==
    /\ pc = "restore_choice"
    /\ choice' = "q"
    /\ Finish("exit0")
    /\ out' = out \cup {"Goodbye!"}
    /\ UNCHANGED <<os, fs, today, steps, entries, backup_list, restoreSrc,
                   restoreDst, copyAttempts, copyError, fsAtStart, backedUpOn,
                   runs>>

RestoreUnknown ==
    /\ pc = "restore_choice"
    /\ \E c \in Choices :
          /\ ChoiceIndex(c) = 0 /\ c # "q"
          /\ choice' = c
    /\ out' = out \cup {"Unknown input! Try again."}
    /\ UNCHANGED <<os, fs, today, pc, steps, exitKind, entries, backup_list,
                   restoreSrc, restoreDst, copyAttempts, copyError, fsAtStart,
                   backedUpOn, runs>>

\* backup_item[4:]
ItemName(backup_item) == SubSeq(backup_item, 5, Len(backup_item))

\* src of restore_data()
RestoreSource(backup_item) == RestoreDocuments \o <<ItemName(backup_item)>>

\* dst of restore_data(): _, dst, _ = check_default_profile()
RestoreTarget(f, o) == check_default_profile(f, o)[2]

\* the except OSError branch of restore_data(); anything else propagates
RestoreOnError(err) == IF err = "OSError" THEN "exit1" ELSE "fault"

\* restore_data() up to the copy: the paths are computed and resolution may fail
RestoreDataResolve ==
    /\ pc = "restore_data"
    /\ steps' = Append(steps, "check_default_profile")
    /\ restoreSrc' = RestoreSource(backup_list[ChoiceIndex(choice)])
    /\ IF ResolveFails(fs, os)
       THEN /\ Finish("exit1")
            /\ out' = out \cup {"profile not found"}
            /\ UNCHANGED restoreDst
       ELSE /\ restoreDst' = RestoreTarget(fs, os)
            /\ pc' = "restore_copy"
            /\ UNCHANGED <<exitKind, out>>
    /\ UNCHANGED <<os, fs, today, entries, backup_list, choice, copyAttempts,
                   copyError, fsAtStart, backedUpOn, runs>>

RestoreCopyOk ==
    /\ pc = "restore_copy"
    /\ IsDir(fs, restoreSrc)
    /\ fs' = copy_tree(fs, restoreSrc, restoreDst)
    /\ steps' = Append(steps, "copy_tree")
    /\ copyAttempts' = copyAttempts + 1
    /\ out' = out \cup {"Successfully restored the backup!"}
    /\ Finish("return")
    /\ UNCHANGED <<os, today, entries, backup_list, choice, restoreSrc,
                   restoreDst, copyError, fsAtStart, backedUpOn, runs>>

\* copy_tree raises: DistutilsFileError when src is no directory, else
\* either error class after a partial copy
RestoreCopyFail ==
    /\ pc = "restore_copy"
    /\ \E err \in {"OSError", "DistutilsFileError"} :
          /\ ~IsDir(fs, restoreSrc) => err = "DistutilsFileError"
          /\ copyError' = err
          /\ Finish(RestoreOnError(err))
          /\ out' = IF err = "OSError"
                    THEN out \cup {"Creation of the directory failed", "Error message"}
                    ELSE out \cup {"Traceback: DistutilsFileError"}
    /\ IF ~IsDir(fs, restoreSrc)
       THEN fs' = fs
       ELSE \/ fs' = fs
            \/ \E K \in PartialSets(fs, restoreSrc, Below(fs, restoreSrc)) :
                  fs' = CopyInto(fs, restoreSrc, restoreDst, K)
    /\ steps' = Append(steps, "copy_tree")
    /\ copyAttempts' = copyAttempts + 1
    /\ UNCHANGED <<os, today, entries, backup_list, choice, restoreSrc,
                   restoreDst, fsAtStart, backedUpOn, runs>>

Next ==
    \/ Start
    \/ MenuShowPath
    \/ MenuBackup
    \/ MenuRestore
    \/ MenuInfo
    \/ MenuQuit
    \/ MenuUnknown
    \/ BackupCheckProcess
    \/ BackupDeleteOld
    \/ BackupResolve
    \/ BackupCopyOk
    \/ BackupCopyFail
    \/ RestoreCheckProcess
    \/ RestoreList
    \/ RestoreChoose
    \/ RestoreQuit
    \/ RestoreUnknown
    \/ RestoreDataResolve
    \/ RestoreCopyOk
    \/ RestoreCopyFail

Spec == Init /\ [][Next]_vars

TypeOK ==
    /\ os \in OSKinds
    /\ pc \in {"idle", "user_input", "backup", "backup_prune", "backup_resolve",
               "backup_copy", "restore_from_documents", "restore_list",
               "restore_choice", "restore_data", "restore_copy", "exited"}
    /\ exitKind \in {"none", "return", "exit0", "exit1", "fault"}
    /\ copyAttempts \in 0..1
    /\ \A p \in DOMAIN fs : \A a \in Ancestors(p) : IsDir(fs, a)

(***************************************************************************)
(* Properties.  fsAtStart is the filesystem when the current invocation     *)
(* started; backedUpOn holds the days of the successful backups made by     *)
(* earlier invocations.                                                     *)
(***************************************************************************)
BackupSucceeded == pc = "exited" /\ "Successfully created the backup!" \in out

RestoreSucceeded == pc = "exited" /\ "Successfully restored the backup!" \in out

GateRefused == "Thunderbird is running!" \in out

Source == default_release_directory(fsAtStart, os)

Snapshot == BackupDst(os, today)

BackupRoot == documents_directory(os) \o backup_folder

\* f and g hold the same regular files with the same content below a and b
SameFiles(f, a, rels, g, b) ==
    /\ FilesBelow(f, a) = rels
    /\ \A r \in rels : IsFile(g, b \o r) /\ f[a \o r] = g[b \o r]

\* C1: when the liveness check reports the mail client running, backup() and
\* restore_from_documents() stop there: the check is the only step taken, the
\* process has ended and the filesystem is as it was when the invocation
\* started; and the liveness check is the first step of every operation.
C1_LivenessGate ==
    /\ GateRefused => pc = "exited" /\ steps = <<"check_process">> /\ fs = fsAtStart
    /\ steps # <<>> => steps[1] = "check_process"

\* a backup refused by the gate although a stale snapshot was there to prune
C1_Witness ==
    /\ GateRefused
    /\ exitKind = "exit0"
    /\ StaleSnapshots(fs, os, today) # {}

\* the exclusion rule as the specification words it
ExcludedAsSpecified(r) ==
    \/ endswith(r[Len(r)], ".ini")
    \/ \E i \in 1..Len(r) : r[i] = "default"

\* the exclusion rule of the patterns '*.ini' and '*.default': some component
\* of the path ends in .ini or .default, compared case-insensitively on Windows
ExcludedByPattern(r) ==
    \E i \in 1..Len(r) : \E suffix \in {".ini", ".default"} :
        endswith(IF os = "Windows" THEN Lower(r[i]) ELSE r[i], suffix)

FreshBackup == BackupSucceeded /\ ~Exists(fsAtStart, Snapshot)

\* C2 as stated: after a successful backup into an absent snapshot directory
\* the snapshot holds exactly the source files that neither carry the
\* extension .ini nor have a path component named 'default'.
C2_AsStated ==
    FreshBackup =>
        SameFiles(fs, Snapshot,
                  { r \in FilesBelow(fsAtStart, Source) : ~ExcludedAsSpecified(r) },
                  fsAtStart, Source)

\* C2 amended: after a successful backup into an absent snapshot directory the
\* snapshot holds, with the source's content, exactly the source files none of
\* whose path components matches '*.ini' or '*.default'.
C2_SnapshotContent ==
    FreshBackup =>
        SameFiles(fs, Snapshot,
                  { r \in FilesBelow(fsAtStart, Source) : ~ExcludedByPattern(r) },
                  fsAtStart, Source)

\* a fresh snapshot that took some source files and left others out
C2_Witness ==
    /\ FreshBackup
    /\ FilesBelow(fs, Snapshot) # {}
    /\ \E r \in FilesBelow(fsAtStart, Source) : ExcludedByPattern(r)
    /\ \E r \in FilesBelow(fs, Snapshot) : ExcludedAsSpecified(r)

SameDayRerun == BackupSucceeded /\ today \in backedUpOn

NotExcluded == { r \in FilesBelow(fsAtStart, Source) : ~ExcludedByPattern(r) }

\* C3 as stated: after a second successful backup on one date the snapshot
\* holds exactly the non-excluded files of the source as it is at that run.
C3_AsStated ==
    SameDayRerun => SameFiles(fs, Snapshot, NotExcluded, fsAtStart, Source)

\* C3 amended: a second successful backup on one date adds no entry to the
\* backup root and merges into the snapshot: every non-excluded source file is
\* in the snapshot with the source's content, and every other file the
\* snapshot held before the run is still there with the content it had.
C3_SameDayMerge ==
    SameDayRerun =>
        /\ Names(fs, BackupRoot) \subseteq Names(fsAtStart, BackupRoot)
        /\ IsDir(fsAtStart, Snapshot)
        /\ FilesBelow(fs, Snapshot) = FilesBelow(fsAtStart, Snapshot) \cup NotExcluded
        /\ \A r \in FilesBelow(fs, Snapshot) :
              fs[Snapshot \o r] = IF r \in NotExcluded THEN fsAtStart[Source \o r]
                                  ELSE fsAtStart[Snapshot \o r]

\* a rerun after which the snapshot keeps a file the source no longer has
C3_Witness ==
    /\ SameDayRerun
    /\ FilesBelow(fs, Snapshot) \ NotExcluded # {}

\* C4: a successful restore_data() copies the snapshot into the default
\* profile directory: that directory is the destination, every file of the
\* snapshot is then in it with the snapshot's content, and no entry is added
\* directly under the profile root.
C4_RestoreIntoDefaultProfile ==
    RestoreSucceeded =>
        /\ restoreDst = Source
        /\ \A r \in FilesBelow(fsAtStart, restoreSrc) :
              IsFile(fs, Source \o r) /\ fs[Source \o r] = fsAtStart[restoreSrc \o r]
        /\ Names(fs, thunderbird_directory(os)) = Names(fsAtStart, thunderbird_directory(os))

InBoth == FilesBelow(fsAtStart, restoreDst) \cap FilesBelow(fsAtStart, restoreSrc)

OnlyInDestination == FilesBelow(fsAtStart, restoreDst) \ FilesBelow(fsAtStart, restoreSrc)

\* C5: after a successful restore_data() every file of the copy destination
\* whose relative path the snapshot lacks is there with unchanged content and
\* every file present in both has the snapshot's content; and no run of the
\* copy, successful or not, deletes a path or changes the snapshot it reads.
C5_RestoreAdditive ==
    /\ RestoreSucceeded =>
          /\ \A r \in OnlyInDestination :
                IsFile(fs, restoreDst \o r) /\ fs[restoreDst \o r] = fsAtStart[restoreDst \o r]
          /\ \A r \in InBoth : fs[restoreDst \o r] = fsAtStart[restoreSrc \o r]
    /\ "copy_tree" \in { steps[i] : i \in DOMAIN steps } =>
          /\ DOMAIN fsAtStart \subseteq DOMAIN fs
          /\ Below(fs, restoreSrc) = Below(fsAtStart, restoreSrc)
          /\ \A r \in Below(fs, restoreSrc) : fs[restoreSrc \o r] = fsAtStart[restoreSrc \o r]

\* a restore that overwrote one destination file and kept another
C5_Witness ==
    /\ RestoreSucceeded
    /\ OnlyInDestination # {}
    /\ \E r \in InBoth : fsAtStart[restoreDst \o r] # fsAtStart[restoreSrc \o r]

IsSnapshotEntry(e) == startswith(e, "th-") /\ IsDir(fs, RestoreDocuments \o <<e>>)

\* the entries the menu numbers, in listing order
Listed == SelectSeq(entries, Selectable)

\* C6: restore_data() is reached only by an input k between 1 and the number
\* n of listed snapshots, its source is then the k-th listed snapshot under
\* the backup root, and no input ends the program by an unhandled fault.
C6_SelectionProtocol ==
    /\ restoreSrc # NONE =>
          /\ ChoiceIndex(choice) \in 1..Len(Listed)
          /\ restoreSrc = RestoreDocuments \o <<Listed[ChoiceIndex(choice)]>>
    /\ exitKind # "fault"

\* C7: the list offered for selection numbers, from 1 and in listing order,
\* exactly the entries of the backup root that are directories whose name
\* begins with the prefix 'th-'.
C7_Enumeration ==
    pc = "restore_choice" =>
        LET snaps == SelectSeq(entries, IsSnapshotEntry)
        IN  /\ Len(backup_list) = Len(snaps) + 1
            /\ \A i \in 1..Len(snaps) :
                  backup_list[i] = "-" \o Str(i) \o "- " \o snaps[i]

\* C8: the snapshot a successful backup() wrote lies in the directory that
\* restore_from_documents() lists, at the path restore_data() would read.
C8_OneBackupRoot ==
    BackupSucceeded =>
        /\ Snapshot = RestoreSource("-1- " \o SnapshotName(today))
        /\ SnapshotName(today) \in Names(fs, RestoreDocuments)

\* C9: when the copy of backup() or restore_data() fails the cause is
\* reported, the process has ended with a non-zero status and without a
\* success message, and the copy was attempted once; no invocation attempts
\* the copy twice.
C9_ReportAndAbort ==
    /\ copyAttempts <= 1
    /\ copyError # "" =>
          /\ pc = "exited"
          /\ ExitStatus(exitKind) # 0
          /\ copyAttempts = 1
          /\ \E m \in out : m \in {"Error message", "Traceback: DistutilsFileError"}
          /\ ~BackupSucceeded /\ ~RestoreSucceeded

\* a failed backup copy that left part of the snapshot behind
C9_Witness ==
    /\ copyError = "OSError"
    /\ "copytree" \in { steps[i] : i \in DOMAIN steps }
    /\ fs # fsAtStart
    /\ FilesBelow(fs, Snapshot) # NotExcluded

BackupOrder == <<"check_process", "check_default_profile", "delete_old_profiles", "copytree">>

InBackup ==
    \/ pc \in {"backup", "backup_prune", "backup_resolve", "backup_copy"}
    \/ \E i \in DOMAIN steps : steps[i] \in {"delete_old_profiles", "copytree"}

\* C10: backup() takes its steps in the order liveness check, profile
\* resolution, pruning, copy; a backup whose profile resolution fails has
\* changed nothing on the filesystem.
C10_ResolveBeforeMutate ==
    InBackup =>
        /\ Len(steps) <= Len(BackupOrder)
        /\ steps = SubSeq(BackupOrder, 1, Len(steps))
        /\ "profile not found" \in out => fs = fsAtStart

====
